---- MODULE Spec2Model ----
(***************************************************************************)
(* erdtree, src/render/context/mod.rs: Context::init (the reconciliation   *)
(* of command-line arguments with the configuration file) and              *)
(* Context::overrides (the compilation of the glob lists into an           *)
(* ignore::overrides::Override).                                           *)
(*                                                                         *)
(* Tokens, identifiers and raw values are strings.  The option schema is   *)
(* the part of the Context struct the merge distinguishes: the positional  *)
(* dir, the repeatable valued glob, the single valued level, scale with    *)
(* its default of 2, and the flags hidden, ignore_git and no_config.       *)
(***************************************************************************)
EXTENDS Integers, Sequences, FiniteSets, TLC

\* -------------------------------------------------------------- bounds
MaxUserTokens == 3
MaxConfigTokens == 2
MaxGlobs == 2
MaxIGlobs == 2

\* -------------------------------------------------------- option schema
\* The fields of Context in declaration order (ids() lists defaulted
\* arguments in this order, after the explicit ones).
ArgIds == <<"dir", "glob", "hidden", "ignore_git", "level", "scale", "no_config">>

\* The id of the ArgGroup the derive makes for the struct itself.
RootId == "Context"

IdSet == {ArgIds[i] : i \in 1..Len(ArgIds)} \cup {RootId}

\* bool fields: ArgAction::SetTrue, default raw value "false".
BoolIds == {"hidden", "ignore_git", "no_config"}

\* Option<usize> / usize fields: ArgAction::Set, one value, parsed as usize.
NumIds == {"level", "scale"}

\* Vec<String> fields: ArgAction::Append.
AppendIds == {"glob"}

\* default_value_t = 2
ScaleDefault == "2"

DefaultRaw(id) ==
  IF id \in BoolIds THEN <<"false">>
  ELSE IF id = "scale" THEN <<ScaleDefault>>
  ELSE <<>>

\* Tokens that begin with "--" and are longer than it.
LongLike == {"--glob", "--level", "--hidden", "--ignore-git", "--no-config",
             "--scale", "--dir", "--ignore_git", "--Context"}

\* The argument a long flag names; "none" when the schema has no such flag
\* (dir is positional and has no long flag).
LongId(tok) ==
  CASE tok = "--glob" -> "glob"
    [] tok = "--level" -> "level"
    [] tok = "--hidden" -> "hidden"
    [] tok = "--ignore-git" -> "ignore_git"
    [] tok = "--no-config" -> "no_config"
    [] tok = "--scale" -> "scale"
    [] OTHER -> "none"

IsUsize(v) == v \in {"2", "3", "5"}

\* ------------------------------------------------------------ ArgMatches
\* order: the ids in insertion order (ArgMatches::ids); vals: the raw values
\* (try_get_raw); src: "absent", "cmdline" (ValueSource::CommandLine) or
\* "default" (ValueSource::DefaultValue).
NoMatches == [ok |-> FALSE]

EmptyMatches ==
  [ok |-> TRUE, order |-> <<>>,
   vals |-> [i \in IdSet |-> <<>>], src |-> [i \in IdSet |-> "absent"]]

Contains(s, x) == \E i \in 1..Len(s) : s[i] = x

Without(s, x) == SelectSeq(s, LAMBDA y : y # x)

AppendNew(s, x) == IF Contains(s, x) THEN s ELSE Append(s, x)

\* One explicit occurrence of argument id with raw value v.  A Set or
\* SetTrue argument given twice is an error unless the command was built
\* with args_override_self(true), where the later occurrence replaces the
\* earlier one; an Append argument collects.  The struct's group enters the
\* matches with the first explicit argument.
Occur(m, id, v, overrideSelf) ==
  IF id \in AppendIds
    THEN [m EXCEPT !.order = AppendNew(AppendNew(@, id), RootId),
                   !.vals[id] = Append(@, v), !.src[id] = "cmdline",
                   !.vals[RootId] = AppendNew(@, id), !.src[RootId] = "cmdline"]
  ELSE IF m.src[id] = "cmdline" /\ (id = "dir" \/ ~overrideSelf)
    THEN NoMatches
  ELSE [m EXCEPT !.order = AppendNew(Append(Without(@, id), id), RootId),
                 !.vals[id] = <<v>>, !.src[id] = "cmdline",
                 !.vals[RootId] = AppendNew(@, id), !.src[RootId] = "cmdline"]

RECURSIVE AddDefaultsFrom(_, _)
AddDefaultsFrom(m, i) ==
  IF i > Len(ArgIds) THEN m
  ELSE LET id == ArgIds[i] IN
    IF m.src[id] = "absent" /\ DefaultRaw(id) # <<>>
      THEN AddDefaultsFrom([m EXCEPT !.order = Append(@, id),
                                     !.vals[id] = DefaultRaw(id),
                                     !.src[id] = "default"], i + 1)
      ELSE AddDefaultsFrom(m, i + 1)

\* The parser over the tokens after the binary name.  pending is the valued
\* option still waiting for its value, trailing whether the escape "--" was
\* seen.
RECURSIVE ParseFrom(_, _, _, _, _)
ParseFrom(toks, m, pending, trailing, overrideSelf) ==
  IF ~m.ok THEN NoMatches
  ELSE IF toks = <<>>
    THEN (IF pending # "none" THEN NoMatches ELSE AddDefaultsFrom(m, 1))
  ELSE LET t == Head(toks)
           rest == Tail(toks)
       IN
    IF ~trailing /\ t = "--"
      THEN ParseFrom(rest, m, pending, TRUE, overrideSelf)
    ELSE IF ~trailing /\ t \in LongLike
      THEN (IF pending # "none" \/ LongId(t) = "none" THEN NoMatches
            ELSE IF LongId(t) \in BoolIds
              THEN ParseFrom(rest, Occur(m, LongId(t), "true", overrideSelf),
                             "none", FALSE, overrideSelf)
            ELSE ParseFrom(rest, m, LongId(t), FALSE, overrideSelf))
    ELSE IF pending # "none"
      THEN (IF pending \in NumIds /\ ~IsUsize(t) THEN NoMatches
            ELSE ParseFrom(rest, Occur(m, pending, t, overrideSelf),
                           "none", trailing, overrideSelf))
    ELSE ParseFrom(rest, Occur(m, "dir", t, overrideSelf),
                   "none", trailing, overrideSelf)

\* Command::get_matches_from: the first item is the binary name.
GetMatchesFrom(argv, overrideSelf) ==
  IF argv = <<>> THEN ParseFrom(<<>>, EmptyMatches, "none", FALSE, overrideSelf)
  ELSE ParseFrom(Tail(argv), EmptyMatches, "none", FALSE, overrideSelf)

\* ArgMatches::args_present: whether the matches hold any argument at all.
\* Defaulted arguments are held like explicit ones (value_source reports
\* them as DefaultValue, which line 170 relies on), and every bool flag and
\* scale has a default, so the matches of this schema are never empty.
ArgsPresent(m) == m.order # <<>>

\* FromArgMatches: the typed Context.  Option<T> and Vec<T> are sequences.
FromArgMatches(m) ==
  [dir |-> m.vals["dir"],
   glob |-> m.vals["glob"],
   hidden |-> (m.vals["hidden"] = <<"true">>),
   ignore_git |-> (m.vals["ignore_git"] = <<"true">>),
   level |-> m.vals["level"],
   scale |-> m.vals["scale"],
   no_config |-> (m.vals["no_config"] = <<"true">>)]

\* ---------------------------------------------------------------- state
VARIABLES
  userTokens,   \* the process's arguments after the binary name
  configFile,   \* what config::read_config_to_string finds
  pc,           \* the position inside Context::init
  user_args,    \* the matches of the command line
  config_args,  \* the matches of the configuration file
  ids,          \* the identifiers the merge loop has still to visit
  done_ids,     \* the identifiers the merge loop has visited, in order
  args,         \* the token sequence the merge builds
  outcome,      \* how init ended
  path,         \* the return statement init ended in
  ctx,          \* the Context overrides() is called on
  opc,          \* the position inside Context::overrides
  builder,      \* the OverrideBuilder
  iter,         \* the patterns the current loop has still to add
  filter        \* what overrides() ended in

initVars == <<userTokens, configFile, pc, user_args, config_args, ids,
              done_ids, args, outcome, path>>
ovVars == <<ctx, opc, builder, iter, filter>>
vars == <<userTokens, configFile, pc, user_args, config_args, ids,
          done_ids, args, outcome, path, ctx, opc, builder, iter, filter>>

\* ------------------------------------------------------- Context::init
SeqsUpTo(A, n) == UNION {[1..k -> A] : k \in 0..n}

UserAlphabet == {"--glob", "--level", "--hidden", "--ignore-git", "--no-config",
                 "--", "true", "false", "3", "d"}

ConfigAlphabet == {"--glob", "--level", "--hidden", "false", "5", "c"}

NoFile == [found |-> FALSE, tokens |-> <<>>]

NoOutcome == [kind |-> "none", ctx |-> "none"]

\* get_matches and get_matches_from print a parse error and end the process;
\* only try_get_matches* would return it.
Exited == [kind |-> "Exit", ctx |-> "none"]

\* Context::from_arg_matches(m).map_err(|e| Error::<kind>(e))
MapErr(kind, m) ==
  IF m.ok THEN [kind |-> "Ok", ctx |-> FromArgMatches(m)]
  ELSE [kind |-> kind, ctx |-> "none"]

\* format!("--{}", id.replace("_", "-"))
Kebab(id) ==
  CASE id = "ignore_git" -> "--ignore-git"
    [] id = "no_config" -> "--no-config"
    [] id = "dir" -> "--dir"
    [] id = "glob" -> "--glob"
    [] id = "hidden" -> "--hidden"
    [] id = "level" -> "--level"
    [] id = "scale" -> "--scale"
    [] OTHER -> "--Context"

\* The iterator chain of pick_args_from over the raw values: each value
\* becomes the pair [flag, value]; a pair whose value is "false" is dropped;
\* the pairs are flattened and every item equal to "true" is dropped.
RECURSIVE RenderRaw(_, _)
RenderRaw(flag, raw) ==
  IF raw = <<>> THEN <<>>
  ELSE LET pair == <<flag, Head(raw)>>
           kept == IF pair[2] # "false" THEN pair ELSE <<>>
       IN SelectSeq(kept, LAMBDA s : s # "true") \o RenderRaw(flag, Tail(raw))

\* try_get_raw(id) is Ok(Some(raw)) exactly for an id present in the matches.
PickArgsFrom(id, matches) ==
  IF matches.src[id] # "absent" THEN RenderRaw(Kebab(id), matches.vals[id])
  ELSE <<>>

\* crate::utils::uniq: the first occurrence of each item, in order.
RECURSIVE Uniq(_)
Uniq(s) ==
  IF s = <<>> THEN <<>>
  ELSE LET init == Uniq(SubSeq(s, 1, Len(s) - 1))
           last == s[Len(s)]
       IN IF Contains(init, last) THEN init ELSE Append(init, last)

\* let mut args = vec![OsString::from("--")];
SentinelArgs == <<"--">>

\* ids of the command line, extended by the ids of the config, then uniq.
MergeIds(ua, ca) == Uniq(ua.order \o ca.order)

\* The loop body without the test for the struct's own identifier.
MergeTokensNoSkip(id, ua, ca) ==
  IF id = "dir" /\ ua.src[id] # "absent" THEN ua.vals[id]
  ELSE IF ua.src[id] = "cmdline" THEN PickArgsFrom(id, ua)
  ELSE PickArgsFrom(id, ca)

\* The body of the loop over ids: the tokens one identifier adds to args.
MergeTokens(id, ua, ca) ==
  IF id = RootId THEN <<>>
  ELSE IF id = "dir" /\ ua.src[id] # "absent" THEN ua.vals[id]
  ELSE IF ua.src[id] = "cmdline" THEN PickArgsFrom(id, ua)
  ELSE PickArgsFrom(id, ca)

InitIdle ==
  /\ pc = "idle" /\ userTokens = <<>> /\ configFile = NoFile
  /\ user_args = NoMatches /\ config_args = NoMatches
  /\ ids = <<>> /\ done_ids = <<>> /\ args = <<>>
  /\ outcome = NoOutcome /\ path = "none"

OvIdle ==
  /\ opc = "idle" /\ ctx = "none" /\ builder = "none"
  /\ iter = <<>> /\ filter = [kind |-> "none"]

Init ==
  /\ userTokens \in SeqsUpTo(UserAlphabet, MaxUserTokens)
  /\ configFile \in {NoFile} \cup
       {[found |-> TRUE, tokens |-> t] : t \in SeqsUpTo(ConfigAlphabet, MaxConfigTokens)}
  /\ pc = "start"
  /\ user_args = NoMatches /\ config_args = NoMatches
  /\ ids = <<>> /\ done_ids = <<>> /\ args = <<>>
  /\ outcome = NoOutcome /\ path = "none"
  /\ OvIdle

\* line 122: Context::command().args_override_self(true).get_matches()
GetMatches ==
  /\ pc = "start"
  /\ LET m == ParseFrom(userTokens, EmptyMatches, "none", FALSE, TRUE) IN
       /\ user_args' = m
       /\ IF m.ok THEN pc' = "no_config" /\ outcome' = outcome
          ELSE pc' = "done" /\ outcome' = Exited
  /\ UNCHANGED <<userTokens, configFile, config_args, ids, done_ids, args, path>>
  /\ UNCHANGED ovVars

\* lines 124-131
CheckNoConfig ==
  /\ pc = "no_config"
  /\ IF user_args.vals["no_config"] = <<"true">>
       THEN /\ outcome' = MapErr("ArgParse", user_args)
            /\ path' = "DirectParse"
            /\ pc' = "done"
       ELSE /\ pc' = "read_config"
            /\ UNCHANGED <<outcome, path>>
  /\ UNCHANGED <<userTokens, configFile, user_args, config_args, ids, done_ids, args>>
  /\ UNCHANGED ovVars

\* lines 133-135 and, with no content found, line 181.  The content of the
\* file is held as the tokens config::parse_config recovers from it, parsed
\* by the same command without args_override_self.
ReadConfig ==
  /\ pc = "read_config"
  /\ IF ~configFile.found
       THEN /\ outcome' = MapErr("ArgParse", user_args)
            /\ path' = "DirectParse"
            /\ pc' = "done"
            /\ UNCHANGED config_args
       ELSE LET m == ParseFrom(configFile.tokens, EmptyMatches, "none", FALSE, FALSE) IN
            /\ config_args' = m
            /\ path' = path
            /\ IF m.ok THEN pc' = "args_present" /\ outcome' = outcome
               ELSE pc' = "done" /\ outcome' = Exited
  /\ UNCHANGED <<userTokens, configFile, user_args, ids, done_ids, args>>
  /\ UNCHANGED ovVars

\* lines 138-150: the config-only return, or the start of the merge
CheckArgsPresent ==
  /\ pc = "args_present"
  /\ IF ~ArgsPresent(user_args)
       THEN /\ outcome' = MapErr("Config", config_args)
            /\ path' = "ConfigOnlyParse"
            /\ pc' = "done"
            /\ UNCHANGED <<args, ids>>
       ELSE /\ args' = SentinelArgs
            /\ ids' = MergeIds(user_args, config_args)
            /\ pc' = "merge"
            /\ UNCHANGED <<outcome, path>>
  /\ UNCHANGED <<userTokens, configFile, user_args, config_args, done_ids>>
  /\ UNCHANGED ovVars

\* lines 152-175: one iteration of the loop
MergeId ==
  /\ pc = "merge"
  /\ ids # <<>>
  /\ args' = args \o MergeTokens(Head(ids), user_args, config_args)
  /\ ids' = Tail(ids)
  /\ done_ids' = Append(done_ids, Head(ids))
  /\ UNCHANGED <<userTokens, configFile, pc, user_args, config_args, outcome, path>>
  /\ UNCHANGED ovVars

\* lines 177-178
Reparse ==
  /\ pc = "merge"
  /\ ids = <<>>
  /\ LET clargs == GetMatchesFrom(args, FALSE) IN
       outcome' = IF clargs.ok THEN MapErr("Config", clargs) ELSE Exited
  /\ path' = "MergeReparse"
  /\ pc' = "done"
  /\ UNCHANGED <<userTokens, configFile, user_args, config_args, ids, done_ids, args>>
  /\ UNCHANGED ovVars

Next ==
  \/ GetMatches
  \/ CheckNoConfig
  \/ ReadConfig
  \/ CheckArgsPresent
  \/ MergeId
  \/ Reparse

Spec == Init /\ [][Next]_vars

\* --------------------------------------------------- Context::overrides
\* A pattern and a path are sequences of one-character strings.
PatGit == <<"!", ".", "g", "i", "t">>
PatStarRS == <<"*", ".", "R", "S">>
PatStar == <<"*">>
PatGitUpper == <<".", "G", "I", "T">>
PatNotX == <<"!", "x", ".", "r", "s">>
PatUnclosed == <<"[">>

PathXrs == <<"x", ".", "r", "s">>
PathXRS == <<"x", ".", "R", "S">>
PathGit == <<".", "g", "i", "t">>
PathA == <<"a">>

GlobPatterns == {PatStarRS, PatStar, PatGitUpper, PatNotX, PatUnclosed}
Paths == {PathXrs, PathXRS, PathGit, PathA}

Lower(c) ==
  CASE c = "R" -> "r" [] c = "S" -> "s" [] c = "G" -> "g"
    [] c = "I" -> "i" [] c = "T" -> "t" [] OTHER -> c

\* A glob over one path component: "*" matches any run of characters, every
\* other character itself, compared after lowering both when the glob was
\* compiled case insensitive.
RECURSIVE GlobMatches(_, _, _)
GlobMatches(pat, name, ci) ==
  IF pat = <<>> THEN name = <<>>
  ELSE IF Head(pat) = "*"
    THEN \/ GlobMatches(Tail(pat), name, ci)
         \/ name # <<>> /\ GlobMatches(pat, Tail(name), ci)
  ELSE /\ name # <<>>
       /\ IF ci THEN Lower(Head(pat)) = Lower(Head(name)) ELSE Head(pat) = Head(name)
       /\ GlobMatches(Tail(pat), Tail(name), ci)

\* A character class that is never closed is a glob syntax error.
Malformed(pattern) == Contains(pattern, "[")

\* OverrideBuilder::new
NewBuilder == [globs |-> <<>>, case_insensitive |-> FALSE]

\* An add that drops a malformed pattern instead of failing.
BuilderAddLenient(b, pattern) ==
  IF Malformed(pattern) THEN [ok |-> TRUE, b |-> b]
  ELSE LET neg == Head(pattern) = "!"
           g == [pat |-> IF neg THEN Tail(pattern) ELSE pattern,
                 excludes |-> neg,
                 ci |-> b.case_insensitive]
       IN [ok |-> TRUE, b |-> [b EXCEPT !.globs = Append(@, g)]]

\* OverrideBuilder::add: a leading "!" marks the glob as one that excludes;
\* the glob is compiled with the mode the builder has at this moment.
BuilderAdd(b, pattern) ==
  IF Malformed(pattern) THEN [ok |-> FALSE, b |-> b]
  ELSE LET neg == Head(pattern) = "!"
           g == [pat |-> IF neg THEN Tail(pattern) ELSE pattern,
                 excludes |-> neg,
                 ci |-> b.case_insensitive]
       IN [ok |-> TRUE, b |-> [b EXCEPT !.globs = Append(@, g)]]

\* A mode that also recompiles the globs the builder already holds.
SetCaseInsensitiveAll(b, yes) ==
  [b EXCEPT !.case_insensitive = yes,
            !.globs = [i \in 1..Len(@) |-> [@[i] EXCEPT !.ci = yes]]]

\* OverrideBuilder::case_insensitive(yes), when the builder accepts it: the
\* mode of the globs added from now on.
SetCaseInsensitive(b, yes) == [b EXCEPT !.case_insensitive = yes]

\* Override::matched on a built filter: nothing for an empty filter; else the
\* last glob added that matches decides; else, with an including glob in the
\* filter, a file that no glob matches is ignored.
Matched(globs, name, is_dir) ==
  LET hits == {i \in 1..Len(globs) : GlobMatches(globs[i].pat, name, globs[i].ci)}
      last == CHOOSE i \in hits : \A j \in hits : j <= i
  IN IF globs = <<>> THEN "None"
     ELSE IF hits # {} THEN (IF globs[last].excludes THEN "Ignore" ELSE "Whitelist")
     ELSE IF (\E i \in 1..Len(globs) : ~globs[i].excludes) /\ ~is_dir THEN "Ignore"
     ELSE "None"

InitOverrides ==
  /\ ctx \in [ignore_git : BOOLEAN,
              glob : SeqsUpTo(GlobPatterns, MaxGlobs),
              iglob : SeqsUpTo(GlobPatterns, MaxIGlobs),
              glob_case_insensitive : BOOLEAN]
  /\ opc = "start"
  /\ builder = "none" /\ iter = <<>> /\ filter = [kind |-> "none"]
  /\ InitIdle

FilterOk(b) == [kind |-> "Ok", globs |-> b.globs]
FilterErr(pattern) == [kind |-> "Err", glob |-> pattern]
Panicked(at) == [kind |-> "Panic", at |-> at]

\* line 215
OvNew ==
  /\ opc = "start"
  /\ builder' = NewBuilder
  /\ opc' = "git"
  /\ UNCHANGED <<ctx, iter, filter>>
  /\ UNCHANGED initVars

\* lines 217-219
OvIgnoreGit ==
  /\ opc = "git"
  /\ IF ctx.ignore_git
       THEN LET r == BuilderAdd(builder, PatGit) IN
            IF r.ok THEN builder' = r.b /\ opc' = "empty" /\ filter' = filter
            ELSE builder' = builder /\ opc' = "done" /\ filter' = FilterErr(PatGit)
       ELSE builder' = builder /\ opc' = "empty" /\ filter' = filter
  /\ UNCHANGED <<ctx, iter>>
  /\ UNCHANGED initVars

\* lines 221-223
OvEmpty ==
  /\ opc = "empty"
  /\ IF ctx.glob = <<>> /\ ctx.iglob = <<>>
       THEN opc' = "done" /\ filter' = FilterOk(builder)
       ELSE opc' = "flag" /\ filter' = filter
  /\ UNCHANGED <<ctx, builder, iter>>
  /\ UNCHANGED initVars

\* lines 225-227.  case_insensitive returns a Result, which the code
\* unwraps: both outcomes of the call are taken, and Err is a panic.
OvFlag ==
  /\ opc = "flag"
  /\ \E accepted \in BOOLEAN :
       IF ctx.glob_case_insensitive /\ ~accepted
         THEN opc' = "done" /\ filter' = Panicked("flag") /\ UNCHANGED <<builder, iter>>
         ELSE /\ builder' = IF ctx.glob_case_insensitive
                              THEN SetCaseInsensitive(builder, TRUE) ELSE builder
              /\ iter' = ctx.glob
              /\ opc' = "globs"
              /\ filter' = filter
  /\ UNCHANGED ctx
  /\ UNCHANGED initVars

\* lines 229-231: one iteration
OvGlob ==
  /\ opc = "globs"
  /\ iter # <<>>
  /\ LET r == BuilderAdd(builder, Head(iter)) IN
       IF r.ok THEN builder' = r.b /\ iter' = Tail(iter) /\ UNCHANGED <<opc, filter>>
       ELSE opc' = "done" /\ filter' = FilterErr(Head(iter)) /\ UNCHANGED <<builder, iter>>
  /\ UNCHANGED ctx
  /\ UNCHANGED initVars

\* lines 233-234.  The Result is unwrapped here as well.
OvInsensitive ==
  /\ opc = "globs"
  /\ iter = <<>>
  /\ \E accepted \in BOOLEAN :
       IF ~accepted
         THEN opc' = "done" /\ filter' = Panicked("iglob") /\ UNCHANGED <<builder, iter>>
         ELSE /\ builder' = SetCaseInsensitive(builder, TRUE)
              /\ iter' = ctx.iglob
              /\ opc' = "iglobs"
              /\ filter' = filter
  /\ UNCHANGED ctx
  /\ UNCHANGED initVars

\* lines 235-237: one iteration
OvIGlob ==
  /\ opc = "iglobs"
  /\ iter # <<>>
  /\ LET r == BuilderAdd(builder, Head(iter)) IN
       IF r.ok THEN builder' = r.b /\ iter' = Tail(iter) /\ UNCHANGED <<opc, filter>>
       ELSE opc' = "done" /\ filter' = FilterErr(Head(iter)) /\ UNCHANGED <<builder, iter>>
  /\ UNCHANGED ctx
  /\ UNCHANGED initVars

\* line 239
OvBuild ==
  /\ opc = "iglobs"
  /\ iter = <<>>
  /\ filter' = FilterOk(builder)
  /\ opc' = "done"
  /\ UNCHANGED <<ctx, builder, iter>>
  /\ UNCHANGED initVars

NextOverrides ==
  \/ OvNew
  \/ OvIgnoreGit
  \/ OvEmpty
  \/ OvFlag
  \/ OvGlob
  \/ OvInsensitive
  \/ OvIGlob
  \/ OvBuild

SpecOverrides == InitOverrides /\ [][NextOverrides]_vars

\* =================================================================
\* Properties of Context::init
\* =================================================================
\* A run that took the merge with explicit user tokens and returned a Context.
MergeDone ==
  pc = "done" /\ path = "MergeReparse" /\ outcome.kind = "Ok" /\ userTokens # <<>>

\* The matches the merge takes an identifier's raw value from.
ChosenFor(id) == IF user_args.src[id] = "cmdline" THEN user_args ELSE config_args

\* C1 (Precedence): on the merge path every option other than dir that the
\* command line gives explicitly has, in the final Context, the value the
\* command line gave it (all values in order for glob).
C1_Precedence ==
  MergeDone =>
    \A id \in IdSet \ {"dir", RootId} :
      user_args.src[id] = "cmdline" =>
        outcome.ctx[id] = FromArgMatches(user_args)[id]

\* C2 (Config fallback): on the merge path every option, dir included, that
\* the command line does not give explicitly and the config matches hold has,
\* in the final Context, the value of the config matches.
C2_ConfigFallback ==
  MergeDone =>
    \A id \in IdSet \ {RootId} :
      (user_args.src[id] # "cmdline" /\ config_args.src[id] # "absent") =>
        outcome.ctx[id] = FromArgMatches(config_args)[id]

\* What the merge does with a dir that only the config file gives: it is
\* rendered as the flag --dir, which the schema does not have, so no run
\* returns a Context holding it.
DirFromConfigLost ==
  (pc = "done" /\ path = "MergeReparse"
     /\ user_args.src["dir"] = "absent" /\ config_args.src["dir"] # "absent")
    => ~(outcome.kind = "Ok" /\ outcome.ctx.dir = config_args.vals["dir"])

\* C3 (Directory special-case): on the merge path a dir the command line
\* carries is copied into the token sequence as it is and is the final
\* Context's dir, whatever the config file says.
C3_DirectorySpecialCase ==
  (MergeDone /\ user_args.src["dir"] # "absent") =>
    /\ Contains(args, user_args.vals["dir"][1])
    /\ outcome.ctx.dir = user_args.vals["dir"]

\* The return statement the three inputs select.
ExpectedPath ==
  IF user_args.vals["no_config"] = <<"true">> \/ ~configFile.found THEN "DirectParse"
  ELSE IF userTokens = <<>> THEN "ConfigOnlyParse"
  ELSE "MergeReparse"

\* C4 (Path selection): a run of init that returns a Context returns it on
\* the path that no_config, the presence of config content and the presence
\* of explicit user tokens select; DirectParse returns the parse of the
\* command line, ConfigOnlyParse the parse of the config tokens.
C4_PathSelection ==
  (pc = "done" /\ outcome.kind = "Ok") =>
    /\ path = ExpectedPath
    /\ path = "DirectParse" => outcome.ctx = FromArgMatches(user_args)
    /\ path = "ConfigOnlyParse" => outcome.ctx = FromArgMatches(config_args)

\* C5 (Error taxonomy): init never ends the process itself; a failure is
\* returned as Error::ArgParse on the direct path and as Error::Config on the
\* config-only and merge paths.
C5_ErrorTaxonomy ==
  pc = "done" =>
    /\ outcome.kind \in {"Ok", "ArgParse", "Config"}
    /\ outcome.kind = "ArgParse" => path = "DirectParse"
    /\ outcome.kind = "Config" => path \in {"ConfigOnlyParse", "MergeReparse"}

\* C6 (Boolean round trip): on the merge path a flag whose chosen raw value
\* is "true" is rendered as the bare flag, one whose chosen raw value is
\* "false" as nothing, and the final Context holds that boolean.
C6_BooleanRoundTrip ==
  MergeDone =>
    \A b \in BoolIds :
      LET raw == ChosenFor(b).vals[b] IN
        /\ raw = <<"true">> => PickArgsFrom(b, ChosenFor(b)) = <<Kebab(b)>>
        /\ raw = <<"false">> => PickArgsFrom(b, ChosenFor(b)) = <<>>
        /\ outcome.ctx[b] = (raw = <<"true">>)

NoDup(s) == \A i, j \in 1..Len(s) : s[i] = s[j] => i = j

FirstIndex(s, x) == CHOOSE i \in 1..Len(s) : s[i] = x /\ \A j \in 1..(i - 1) : s[j] # x

Range(s) == {s[i] : i \in 1..Len(s)}

InMerge == pc = "merge" \/ path = "MergeReparse"

C9_State ==
  InMerge =>
    LET all == done_ids \o ids
        cat == user_args.order \o config_args.order
    IN /\ NoDup(all)
       /\ Range(all) = Range(cat)
       /\ \A i, j \in 1..Len(all) :
            i < j => FirstIndex(cat, all[i]) < FirstIndex(cat, all[j])
       /\ Uniq(all) = all /\ Uniq(cat \o all) = all
       /\ Uniq(<<"A", "B", "A", "C">>) = Uniq(<<"A", "B", "C">>)
       /\ args # <<>> /\ args[1] = "--"
       /\ pc = "done" => (ids = <<>> /\ done_ids = all)

C9_Step ==
  (pc = "merge" /\ ids # <<>>) =>
    /\ done_ids' = Append(done_ids, Head(ids))
    /\ ids' = Tail(ids)
    /\ Head(ids) = RootId => args' = args
    /\ SubSeq(args', 1, Len(args)) = args

\* C9 (Merge order): the merge visits the identifiers of the command line
\* followed by those of the config file, each once and at its first
\* position; removing duplicates again changes nothing; the struct's own
\* identifier adds no token; the token sequence starts with "--" and only
\* grows.
C9_MergeOrder == [](C9_State) /\ [][C9_Step]_vars

C9_Witness ==
  /\ pc = "done" /\ path = "MergeReparse" /\ userTokens # <<>>
  /\ Contains(user_args.order, RootId) /\ Contains(done_ids, RootId)
  /\ Range(user_args.order) \cap Range(config_args.order) # {}
  /\ Contains(config_args.order, "level") /\ ~Contains(user_args.order, "level")
  /\ Len(args) > 3

\* =================================================================
\* Properties of Context::overrides
\* =================================================================
LowerSeq(s) == [i \in 1..Len(s) |-> Lower(s[i])]

GitOffset == IF ctx.ignore_git THEN 1 ELSE 0

Built == opc = "done" /\ filter.kind = "Ok"

\* C7 (Git exclusion): a filter built with ignore_git set excludes the
\* root entry .git, whatever globs were added after "!.git".
C7_GitExcluded ==
  (Built /\ ctx.ignore_git) =>
    \A d \in BOOLEAN : Matched(filter.globs, PathGit, d) = "Ignore"

\* The globs the builder holds, at any point of overrides().
BuilderGlobs == IF opc \in {"idle", "start"} THEN <<>> ELSE builder.globs

\* C8 (Case rule): at every point of overrides() each glob compiled from
\* the glob list has the mode of glob_case_insensitive and each glob
\* compiled from the iglob list is case insensitive, so turning the builder
\* case insensitive before the iglob list changes no glob added before; a
\* plain "*.RS" with the flag unset does not match x.rs and an insensitive
\* "*.RS" does.
C8_CaseRule ==
  \A i \in 1..Len(BuilderGlobs) :
    LET g == BuilderGlobs[i]
        k == i - GitOffset
    IN /\ (1 <= k /\ k <= Len(ctx.glob)) =>
            /\ g.ci = ctx.glob_case_insensitive
            /\ \A p \in Paths :
                 GlobMatches(g.pat, p, g.ci) =
                   IF ctx.glob_case_insensitive
                     THEN GlobMatches(LowerSeq(g.pat), LowerSeq(p), FALSE)
                     ELSE GlobMatches(g.pat, p, FALSE)
            /\ (ctx.glob[k] = PatStarRS /\ ~ctx.glob_case_insensitive) =>
                 (~GlobMatches(g.pat, PathXrs, g.ci) /\ GlobMatches(g.pat, PathXRS, g.ci))
       /\ k > Len(ctx.glob) =>
            /\ g.ci = TRUE
            /\ ctx.iglob[k - Len(ctx.glob)] = PatStarRS =>
                 (GlobMatches(g.pat, PathXrs, g.ci) /\ GlobMatches(g.pat, PathXRS, g.ci))

C8_Witness ==
  /\ Built
  /\ ~ctx.glob_case_insensitive /\ ~ctx.ignore_git
  /\ ctx.glob = <<PatStarRS>> /\ ctx.iglob = <<PatStarRS>>
  /\ ~GlobMatches(filter.globs[1].pat, PathXrs, filter.globs[1].ci)
  /\ GlobMatches(filter.globs[2].pat, PathXrs, filter.globs[2].ci)

AllPatterns == ctx.glob \o ctx.iglob

BadAt == {i \in 1..Len(AllPatterns) : Malformed(AllPatterns[i])}

FirstBad == CHOOSE i \in BadAt : \A j \in BadAt : i <= j

====
